---- MODULE Spec2Model ----
(***************************************************************************)
(* Model of ImmersiveFullscreenController, the immersive UI reveal /       *)
(* auto-hide controller (docs/examples/local_model_classifier.cc, second   *)
(* translation unit, lines 233-722, and immersive_fullscreen_controller.h).*)
(*                                                                         *)
(* Every public method of the controller, the auto-hide timer firing and   *)
(* one frame of the slide animation are one action each.  A method is a    *)
(* function from the controller's state (a record `s` holding every        *)
(* member) to the state it leaves behind, so that a method calling another *)
(* method is the composition of the two, as in the code.                   *)
(*                                                                         *)
(* The page-side ImmersiveFullscreenEventHandler (the JavaScript appended  *)
(* to immersive_fullscreen_controller_unittest.cc, lines 424-842) is       *)
(* modelled the same way over the variables `handler` and `document`,      *)
(* which the controller's actions leave alone.                             *)
(***************************************************************************)
EXTENDS Integers, Sequences, FiniteSets, TLC

VARIABLES
    state_,                     \* State: kDisabled | kEnabled | kRevealed | kPinned
    animation_state_,           \* AnimationState: kNone | kShowingUI | kHidingUI
    should_show_ui_,            \* the pointer signal
    address_bar_focused_,       \* the focus signal
    mouse_in_top_edge_,
    auto_hide_timer_,           \* base::OneShotTimer::IsRunning()
    animation_,                 \* gfx::SlideAnimation: [showing, running, value]
    animation_duration_,        \* slide duration in ms (0: instant)
    auto_hide_delay_,           \* auto-hide delay in ms
    top_edge_sensitivity_px_,
    show_on_address_bar_focus_,
    show_on_keyboard_activity_,
    views,                      \* last SetVisible() each managed view received
    observers_,                 \* base::ObserverList, in registration order
    prefs,                      \* the PrefService values the controller reads
    log,                        \* what the last operation emitted, in order
    lastOp,                     \* the last operation and its argument
    lastToggled,                \* value of the last OnImmersiveModeToggled
    lastVisibility,             \* value of the last OnImmersiveUIVisibilityChanged
    handler,                    \* the page's ImmersiveFullscreenEventHandler
    document                    \* what the handler reads from the page

vars == <<state_, animation_state_, should_show_ui_, address_bar_focused_,
          mouse_in_top_edge_, auto_hide_timer_, animation_, animation_duration_,
          auto_hide_delay_, top_edge_sensitivity_px_, show_on_address_bar_focus_,
          show_on_keyboard_activity_, views, observers_, prefs, log, lastOp,
          lastToggled, lastVisibility, handler, document>>

----------------------------------------------------------------------------
(* Bounds and program constants *)

\* The slide animation's progress 0.0 .. 1.0 is the grid 0 .. AnimSteps.
AnimSteps == 4

kDefaultAutoHideDelay == 2000

kDefaultAnimationDuration == 300

kDefaultTopEdgeSensitivity == 5

\* The observers that may register (the two of TEST_F ObserverManagement).
Observers == {"observer1", "observer2"}

States == {"kDisabled", "kEnabled", "kRevealed", "kPinned"}

AnimationStates == {"kNone", "kShowingUI", "kHidingUI"}

\* The views SetAllUIElementsVisible and OnAnimationProgressed command.
ManagedElements == {"kToolbar", "kTabStrip", "kBookmarksBar"}

\* Order in which the three managed views are commanded.
ElementOrder == <<"kToolbar", "kTabStrip", "kBookmarksBar">>

\* Screen points delivered to OnMouseMoved: inside the window's top edge,
\* on its far edge, below it, and beside the window.
Points == [x : {0, 3}, y : {4, 5, 7}]

\* Window bounds the widget reports (gfx::Rect: x, y, width, height).
WindowBounds == {[x |-> 0, y |-> 0, width |-> 3, height |-> 8]}

\* Values of prefs::kTopEdgeSensitivityPx the profile may hold.
SensitivityPrefs == {0, 5}

\* Durations a test may set with SetAnimationDurationForTesting.
TestDurations == {0, kDefaultAnimationDuration}

\* The preference values the controller reads while it runs: the fixture's
\* defaults, a profile that opted out of immersive mode and of the legacy
\* preference, and a profile whose legacy always-show-toolbar preference
\* suppresses immersive mode.
LivePrefs ==
    {[kImmersiveFullscreenEnabled |-> TRUE, kRespectLegacyFullscreenPref |-> TRUE,
      kShowFullscreenToolbar |-> FALSE],
     [kImmersiveFullscreenEnabled |-> FALSE, kRespectLegacyFullscreenPref |-> FALSE,
      kShowFullscreenToolbar |-> TRUE],
     [kImmersiveFullscreenEnabled |-> TRUE, kRespectLegacyFullscreenPref |-> TRUE,
      kShowFullscreenToolbar |-> TRUE]}

----------------------------------------------------------------------------
(* The controller's members as one record *)

Self ==
    [state_ |-> state_, animation_state_ |-> animation_state_,
     should_show_ui_ |-> should_show_ui_,
     address_bar_focused_ |-> address_bar_focused_,
     mouse_in_top_edge_ |-> mouse_in_top_edge_,
     auto_hide_timer_ |-> auto_hide_timer_, animation_ |-> animation_,
     animation_duration_ |-> animation_duration_,
     auto_hide_delay_ |-> auto_hide_delay_,
     top_edge_sensitivity_px_ |-> top_edge_sensitivity_px_,
     show_on_address_bar_focus_ |-> show_on_address_bar_focus_,
     show_on_keyboard_activity_ |-> show_on_keyboard_activity_,
     views |-> views, observers_ |-> observers_, prefs |-> prefs, log |-> <<>>]

IsEnabled(s) == s.state_ # "kDisabled"

\* Mutant: a pinned UI does not count as visible.
IsUIVisible_OnlyRevealed(s) == s.state_ = "kRevealed"

IsUIVisible(s) == s.state_ = "kRevealed" \/ s.state_ = "kPinned"

----------------------------------------------------------------------------
(* Observer notifications and view commands *)

Emit(s, kind, value, to) ==
    [s EXCEPT !.log = Append(@, [kind |-> kind, value |-> value, to |-> to])]

NotifyVisibilityChanged(s, visible) ==
    Emit(s, "OnImmersiveUIVisibilityChanged", visible, s.observers_)

\* Mutant: the observers are notified last-registered first.
NotifyModeToggled_Reversed(s, enabled) ==
    Emit(s, "OnImmersiveModeToggled", enabled,
         [i \in 1..Len(s.observers_) |-> s.observers_[Len(s.observers_) + 1 - i]])

NotifyModeToggled(s, enabled) ==
    Emit(s, "OnImmersiveModeToggled", enabled, s.observers_)

NotifyMouseHoverChanged(s, hovering) ==
    Emit(s, "OnMouseHoverStateChanged", hovering, s.observers_)

SetUIElementVisible(s, element, visible) ==
    Emit([s EXCEPT !.views[element] = IF visible THEN "visible" ELSE "hidden"],
         "SetVisible", visible, element)

\* Mutant: the bookmarks bar is forgotten.
SetAllUIElementsVisible_SkipsBookmarks(s, visible) ==
    SetUIElementVisible(
        SetUIElementVisible(s, ElementOrder[1], visible),
        ElementOrder[2], visible)

SetAllUIElementsVisible(s, visible) ==
    SetUIElementVisible(
        SetUIElementVisible(
            SetUIElementVisible(s, ElementOrder[1], visible),
            ElementOrder[2], visible),
        ElementOrder[3], visible)

----------------------------------------------------------------------------
(* Animation callbacks *)

\* Mutant: the views are already shown at exactly half way.
OnAnimationProgressed_AtHalf(s, value) ==
    LET should_be_visible == 2 * value >= AnimSteps
    IN  SetUIElementVisible(
            SetUIElementVisible(
                SetUIElementVisible(s, "kToolbar", should_be_visible),
                "kTabStrip", should_be_visible),
            "kBookmarksBar", should_be_visible)

OnAnimationProgressed(s, value) ==
    LET should_be_visible == 2 * value > AnimSteps     \* value > 0.5
    IN  SetUIElementVisible(
            SetUIElementVisible(
                SetUIElementVisible(s, "kToolbar", should_be_visible),
                "kTabStrip", should_be_visible),
            "kBookmarksBar", should_be_visible)

\* Mutant: the final command treats only kRevealed as visible.
OnAnimationCompleted_ForgetsPinned(s) ==
    LET s1 == [s EXCEPT !.animation_state_ = "kNone"]
        should_be_visible == (s1.state_ = "kRevealed")
    IN  SetUIElementVisible(
            SetUIElementVisible(
                SetUIElementVisible(s1, "kToolbar", should_be_visible),
                "kTabStrip", should_be_visible),
            "kBookmarksBar", should_be_visible)

OnAnimationCompleted(s) ==
    LET s1 == [s EXCEPT !.animation_state_ = "kNone"]
        should_be_visible == (s1.state_ = "kRevealed" \/ s1.state_ = "kPinned")
    IN  SetAllUIElementsVisible(s1, should_be_visible)

----------------------------------------------------------------------------
(* gfx::SlideAnimation, the animation driver the controller owns.  Show()  *)
(* and Hide() do nothing when the animation already runs in that           *)
(* direction; otherwise they turn it round from its current value.  With a *)
(* zero duration they jump to the end and deliver one progress and one     *)
(* completion callback at once.                                            *)

SlideTarget(showing) == IF showing THEN AnimSteps ELSE 0

SlideBegin(s, showing) ==
    IF s.animation_.showing = showing THEN s
    ELSE LET s1 == [s EXCEPT !.animation_.showing = showing]
         IN  IF s.animation_duration_ = 0
             THEN OnAnimationCompleted(
                      OnAnimationProgressed(
                          [s1 EXCEPT !.animation_.value = SlideTarget(showing)],
                          SlideTarget(showing)))
             ELSE IF s.animation_.value = SlideTarget(showing) THEN s1
             ELSE [s1 EXCEPT !.animation_.running = TRUE]

SlideShow(s) == SlideBegin(s, TRUE)

SlideHide(s) == SlideBegin(s, FALSE)

\* End(): a running animation jumps to its end and reports completion.
SlideEnd(s) ==
    IF ~s.animation_.running THEN s
    ELSE OnAnimationCompleted(
             [s EXCEPT !.animation_.running = FALSE,
                       !.animation_.value = SlideTarget(s.animation_.showing)])

\* One frame: the value moves to v, progress is reported, and at the target
\* the animation stops and reports completion.
SlideStep(s, v) ==
    LET s1 == OnAnimationProgressed([s EXCEPT !.animation_.value = v], v)
    IN  IF v = SlideTarget(s.animation_.showing)
        THEN OnAnimationCompleted([s1 EXCEPT !.animation_.running = FALSE])
        ELSE s1

\* The values the next frame may report: any progress towards the target.
SlideNextValues(a) ==
    IF a.value = SlideTarget(a.showing) THEN {a.value}
    ELSE IF a.showing THEN (a.value + 1)..AnimSteps
    ELSE 0..(a.value - 1)

----------------------------------------------------------------------------
(* Private methods *)

AnimateShowUI(s) ==
    IF s.animation_state_ = "kShowingUI" THEN s
    ELSE LET s1 == [s EXCEPT !.animation_state_ = "kShowingUI"]
         IN  IF s1.animation_.showing THEN s1 ELSE SlideShow(s1)

AnimateHideUI(s) ==
    IF s.animation_state_ = "kHidingUI" THEN s
    ELSE LET s1 == [s EXCEPT !.animation_state_ = "kHidingUI"]
         IN  IF ~s1.animation_.showing THEN s1 ELSE SlideHide(s1)

CompleteAnimation(s) ==
    IF s.animation_state_ = "kNone" THEN s
    ELSE [SlideEnd(s) EXCEPT !.animation_state_ = "kNone"]

ScheduleAutoHide(s) == [s EXCEPT !.auto_hide_timer_ = TRUE]

CancelAutoHide(s) == [s EXCEPT !.auto_hide_timer_ = FALSE]

\* Mutant: the legacy always-show-toolbar preference is never consulted.
ShouldDisableImmersiveMode_IgnoresLegacy(s) == FALSE

ShouldDisableImmersiveMode(s) ==
    IF s.prefs.kRespectLegacyFullscreenPref
    THEN (IF s.prefs.kShowFullscreenToolbar THEN TRUE ELSE FALSE)
    ELSE FALSE

\* Mutant: the far edge of the hover zone counts as inside.
IsMouseInTopEdge_FarEdgeInside(s, location_in_screen, browser_bounds) ==
    /\ location_in_screen.x >= browser_bounds.x
    /\ location_in_screen.x < browser_bounds.x + browser_bounds.width
    /\ location_in_screen.y >= browser_bounds.y
    /\ location_in_screen.y <= browser_bounds.y + s.top_edge_sensitivity_px_

IsMouseInTopEdge(s, location_in_screen, browser_bounds) ==
    /\ location_in_screen.x >= browser_bounds.x
    /\ location_in_screen.x < browser_bounds.x + browser_bounds.width
    /\ location_in_screen.y >= browser_bounds.y
    /\ location_in_screen.y < browser_bounds.y + s.top_edge_sensitivity_px_

----------------------------------------------------------------------------
(* Public methods *)

\* Mutant: revealing leaves a pending auto-hide in place.
RevealUI_KeepsTimer(s) ==
    IF s.state_ = "kDisabled" THEN s
    ELSE LET was_visible == IsUIVisible(s)
             s1 == IF s.state_ = "kEnabled"
                   THEN [s EXCEPT !.state_ = "kRevealed"] ELSE s
             s2 == AnimateShowUI(s1)
         IN  IF ~was_visible THEN NotifyVisibilityChanged(s2, TRUE) ELSE s2

RevealUI(s) ==
    IF s.state_ = "kDisabled" THEN s
    ELSE LET was_visible == IsUIVisible(s)
             s1 == IF s.state_ = "kEnabled"
                   THEN [s EXCEPT !.state_ = "kRevealed"] ELSE s
             s2 == AnimateShowUI(CancelAutoHide(s1))
         IN  IF ~was_visible THEN NotifyVisibilityChanged(s2, TRUE) ELSE s2

\* Mutant: the hide is scheduled even while a signal holds the UI.
HideUIAfterDelay_IgnoresSignals(s) ==
    IF s.state_ = "kDisabled" \/ s.state_ = "kPinned" THEN s
    ELSE ScheduleAutoHide(s)

HideUIAfterDelay(s) ==
    IF s.state_ = "kDisabled" \/ s.state_ = "kPinned" THEN s
    ELSE IF s.should_show_ui_ \/ s.address_bar_focused_ THEN s
    ELSE ScheduleAutoHide(s)

\* Mutant: the hidden notification is sent whether or not the UI was visible.
HideUIImmediately_AlwaysNotifies(s) ==
    IF s.state_ = "kDisabled" \/ s.state_ = "kPinned" THEN s
    ELSE NotifyVisibilityChanged(
             AnimateHideUI([CancelAutoHide(s) EXCEPT !.state_ = "kEnabled"]), FALSE)

\* Mutant: Mode goes back to kEnabled but no hide animation is started.
HideUIImmediately_NoAnimation(s) ==
    IF s.state_ = "kDisabled" \/ s.state_ = "kPinned" THEN s
    ELSE LET s1 == CancelAutoHide(s)
             was_visible == IsUIVisible(s1)
             s2 == [s1 EXCEPT !.state_ = "kEnabled"]
         IN  IF was_visible THEN NotifyVisibilityChanged(s2, FALSE) ELSE s2

\* Mutant: the hide starts but Mode is not set back to kEnabled.
HideUIImmediately_KeepsMode(s) ==
    IF s.state_ = "kDisabled" \/ s.state_ = "kPinned" THEN s
    ELSE LET s1 == CancelAutoHide(s)
             was_visible == IsUIVisible(s1)
             s2 == AnimateHideUI(s1)
         IN  IF was_visible THEN NotifyVisibilityChanged(s2, FALSE) ELSE s2

HideUIImmediately(s) ==
    IF s.state_ = "kDisabled" \/ s.state_ = "kPinned" THEN s
    ELSE LET s1 == CancelAutoHide(s)
             was_visible == IsUIVisible(s1)
             s2 == AnimateHideUI([s1 EXCEPT !.state_ = "kEnabled"])
         IN  IF was_visible THEN NotifyVisibilityChanged(s2, FALSE) ELSE s2

\* Mutant: pinning does not cancel the pending auto-hide.
PinUI_KeepsTimer(s) ==
    IF s.state_ = "kDisabled" THEN s
    ELSE LET was_visible == IsUIVisible(s)
             s2 == [s EXCEPT !.state_ = "kPinned"]
         IN  IF ~was_visible
             THEN NotifyVisibilityChanged(AnimateShowUI(s2), TRUE)
             ELSE s2

PinUI(s) ==
    IF s.state_ = "kDisabled" THEN s
    ELSE LET s1 == CancelAutoHide(s)
             was_visible == IsUIVisible(s1)
             s2 == [s1 EXCEPT !.state_ = "kPinned"]
         IN  IF ~was_visible
             THEN NotifyVisibilityChanged(AnimateShowUI(s2), TRUE)
             ELSE s2

\* Mutant: unpinning never schedules the auto-hide.
UnpinUI_NoSchedule(s) ==
    IF s.state_ # "kPinned" THEN s ELSE [s EXCEPT !.state_ = "kRevealed"]

UnpinUI(s) ==
    IF s.state_ # "kPinned" THEN s
    ELSE LET s1 == [s EXCEPT !.state_ = "kRevealed"]
         IN  IF ~s1.should_show_ui_ /\ ~s1.address_bar_focused_
             THEN HideUIAfterDelay(s1) ELSE s1

\* Mutant: enabling does not record that the introduction was seen.
SetEnabled_NoIntroductionRecord(s, enabled) ==
    IF enabled = IsEnabled(s) THEN s
    ELSE IF enabled /\ ShouldDisableImmersiveMode(s) THEN s
    ELSE LET old_state == s.state_
             s1 == IF enabled
                   THEN LET e2 == [s EXCEPT !.state_ = "kEnabled"]
                        IN  IF e2.should_show_ui_ \/ e2.address_bar_focused_
                            THEN RevealUI(e2) ELSE AnimateHideUI(e2)
                   ELSE SetAllUIElementsVisible(
                            CompleteAnimation(
                                CancelAutoHide([s EXCEPT !.state_ = "kDisabled"])),
                            TRUE)
         IN  IF old_state # s1.state_ THEN NotifyModeToggled(s1, enabled) ELSE s1

\* Mutant: the early return for an unchanged on/off state is missing.
SetEnabled_NoEarlyReturn(s, enabled) ==
    IF enabled /\ ShouldDisableImmersiveMode(s) THEN s
    ELSE LET old_state == s.state_
             s1 == IF enabled
                   THEN LET e1 == [s EXCEPT !.state_ = "kEnabled"]
                            e2 == IF ~e1.prefs.kHasSeenIntroduction
                                  THEN [e1 EXCEPT !.prefs.kHasSeenIntroduction = TRUE]
                                  ELSE e1
                        IN  IF e2.should_show_ui_ \/ e2.address_bar_focused_
                            THEN RevealUI(e2) ELSE AnimateHideUI(e2)
                   ELSE SetAllUIElementsVisible(
                            CompleteAnimation(
                                CancelAutoHide([s EXCEPT !.state_ = "kDisabled"])),
                            TRUE)
         IN  IF old_state # s1.state_ THEN NotifyModeToggled(s1, enabled) ELSE s1

SetEnabled(s, enabled) ==
    IF enabled = IsEnabled(s) THEN s
    ELSE IF enabled /\ ShouldDisableImmersiveMode(s) THEN s
    ELSE LET old_state == s.state_
             s1 == IF enabled
                   THEN LET e1 == [s EXCEPT !.state_ = "kEnabled"]
                            e2 == IF ~e1.prefs.kHasSeenIntroduction
                                  THEN [e1 EXCEPT !.prefs.kHasSeenIntroduction = TRUE]
                                  ELSE e1
                        IN  IF e2.should_show_ui_ \/ e2.address_bar_focused_
                            THEN RevealUI(e2) ELSE AnimateHideUI(e2)
                   ELSE SetAllUIElementsVisible(
                            CompleteAnimation(
                                CancelAutoHide([s EXCEPT !.state_ = "kDisabled"])),
                            TRUE)
         IN  IF old_state # s1.state_ THEN NotifyModeToggled(s1, enabled) ELSE s1

\* Mutant: pointer events are processed while Mode = kDisabled too.
OnMouseMoved_NoDisabledGuard(s, location_in_screen, browser_bounds) ==
    LET was_in_top_edge == s.mouse_in_top_edge_
        s1 == [s EXCEPT !.mouse_in_top_edge_ =
                   IsMouseInTopEdge(s, location_in_screen, browser_bounds)]
        s2 == IF s1.mouse_in_top_edge_ # was_in_top_edge
              THEN NotifyMouseHoverChanged(s1, s1.mouse_in_top_edge_) ELSE s1
        old_should_show == s2.should_show_ui_
        s3 == [s2 EXCEPT !.should_show_ui_ = s2.mouse_in_top_edge_]
    IN  IF s3.should_show_ui_ /\ ~old_should_show THEN RevealUI(s3)
        ELSE IF ~s3.should_show_ui_ /\ old_should_show
                /\ ~s3.address_bar_focused_
             THEN HideUIAfterDelay(s3)
        ELSE s3

\* Mutant: leaving the zone schedules the auto-hide whatever the focus.
OnMouseMoved_SchedulesOnLeave(s, location_in_screen, browser_bounds) ==
    IF s.state_ = "kDisabled" THEN s
    ELSE LET was_in_top_edge == s.mouse_in_top_edge_
             s1 == [s EXCEPT !.mouse_in_top_edge_ =
                        IsMouseInTopEdge(s, location_in_screen, browser_bounds)]
             s2 == IF s1.mouse_in_top_edge_ # was_in_top_edge
                   THEN NotifyMouseHoverChanged(s1, s1.mouse_in_top_edge_) ELSE s1
             old_should_show == s2.should_show_ui_
             s3 == [s2 EXCEPT !.should_show_ui_ = s2.mouse_in_top_edge_]
         IN  IF s3.should_show_ui_ /\ ~old_should_show THEN RevealUI(s3)
             ELSE IF ~s3.should_show_ui_ /\ old_should_show
                  THEN ScheduleAutoHide(s3)
             ELSE s3

\* Mutant: the hover notification is sent after the reveal, not before it.
OnMouseMoved_RevealsBeforeHover(s, location_in_screen, browser_bounds) ==
    IF s.state_ = "kDisabled" THEN s
    ELSE LET was_in_top_edge == s.mouse_in_top_edge_
             s1 == [s EXCEPT !.mouse_in_top_edge_ =
                        IsMouseInTopEdge(s, location_in_screen, browser_bounds)]
             old_should_show == s1.should_show_ui_
             s2 == [s1 EXCEPT !.should_show_ui_ = s1.mouse_in_top_edge_]
             s3 == IF s2.should_show_ui_ /\ ~old_should_show THEN RevealUI(s2)
                   ELSE IF ~s2.should_show_ui_ /\ old_should_show
                           /\ ~s2.address_bar_focused_
                        THEN HideUIAfterDelay(s2)
                   ELSE s2
         IN  IF s3.mouse_in_top_edge_ # was_in_top_edge
             THEN NotifyMouseHoverChanged(s3, s3.mouse_in_top_edge_) ELSE s3

OnMouseMoved(s, location_in_screen, browser_bounds) ==
    IF s.state_ = "kDisabled" THEN s
    ELSE LET was_in_top_edge == s.mouse_in_top_edge_
             s1 == [s EXCEPT !.mouse_in_top_edge_ =
                        IsMouseInTopEdge(s, location_in_screen, browser_bounds)]
             s2 == IF s1.mouse_in_top_edge_ # was_in_top_edge
                   THEN NotifyMouseHoverChanged(s1, s1.mouse_in_top_edge_) ELSE s1
             old_should_show == s2.should_show_ui_
             s3 == [s2 EXCEPT !.should_show_ui_ = s2.mouse_in_top_edge_]
         IN  IF s3.should_show_ui_ /\ ~old_should_show THEN RevealUI(s3)
             ELSE IF ~s3.should_show_ui_ /\ old_should_show
                     /\ ~s3.address_bar_focused_
                  THEN HideUIAfterDelay(s3)
             ELSE s3

OnAddressBarFocused(s) ==
    LET s1 == [s EXCEPT !.address_bar_focused_ = TRUE]
    IN  IF s1.show_on_address_bar_focus_ /\ s1.state_ # "kDisabled"
        THEN RevealUI(s1) ELSE s1

OnAddressBarBlurred(s) ==
    LET s1 == [s EXCEPT !.address_bar_focused_ = FALSE]
    IN  IF s1.state_ # "kDisabled" /\ s1.state_ # "kPinned" /\ ~s1.should_show_ui_
        THEN HideUIAfterDelay(s1) ELSE s1

\* Mutant: keyboard activity reveals whatever the preference says.
OnKeyboardActivity_IgnoresPref(s) == RevealUI(s)

OnKeyboardActivity(s) ==
    IF s.show_on_keyboard_activity_ /\ s.state_ # "kDisabled"
    THEN RevealUI(s) ELSE s

\* Mutant: entering fullscreen enables whatever the preference says.
OnFullscreenStateChanged_IgnoresPref(s, is_fullscreen) ==
    SetEnabled(s, is_fullscreen)

OnFullscreenStateChanged(s, is_fullscreen) ==
    IF is_fullscreen
    THEN (IF s.prefs.kImmersiveFullscreenEnabled THEN SetEnabled(s, TRUE) ELSE s)
    ELSE SetEnabled(s, FALSE)

\* Mutant: the tab change reveals but never schedules the hide.
OnActiveTabChanged_NoFlash(s) == RevealUI(s)

OnActiveTabChanged(s) ==
    IF s.state_ # "kDisabled"
    THEN LET s1 == RevealUI(s)
         IN  IF s1.state_ # "kPinned" THEN HideUIAfterDelay(s1) ELSE s1
    ELSE s

\* base::ObserverList: an observer is listed once, in registration order.
AddObserver(s, observer) ==
    IF \E i \in 1..Len(s.observers_) : s.observers_[i] = observer THEN s
    ELSE [s EXCEPT !.observers_ = Append(@, observer)]

RemoveObserver(s, observer) ==
    [s EXCEPT !.observers_ = SelectSeq(@, LAMBDA o : o # observer)]

\* Only the widget's observer list changes; no member of the controller does.
OnWidgetDestroying(s) == s

SetAnimationDurationForTesting(s, duration) ==
    [s EXCEPT !.animation_duration_ = duration]

\* Mutant: the timer callback turns immersive mode off.
OnAutoHideTimer_Disables(s) == SetEnabled(s, FALSE)

\* Mutant: the timer callback schedules another delay instead of hiding.
OnAutoHideTimer_Delays(s) == HideUIAfterDelay(s)

OnAutoHideTimer(s) == HideUIImmediately(s)

TriggerAutoHideTimerForTesting(s) == OnAutoHideTimer(s)

\* The OneShotTimer runs its task once and is no longer running while it does.
AutoHideTimerFired(s) == OnAutoHideTimer([s EXCEPT !.auto_hide_timer_ = FALSE])

\* The configuration the constructor reads from the preferences.
InitialSensitivity(pref) ==
    IF pref <= 0 THEN kDefaultTopEdgeSensitivity ELSE pref

InitialAnimationDuration(pref) ==
    IF pref = 0 THEN kDefaultAnimationDuration ELSE pref

InitialAutoHideDelay(pref) ==
    IF pref = 0 THEN kDefaultAutoHideDelay ELSE pref

\* InitializeFromPrefs on a controller whose preference store holds the
\* three numeric and the two boolean configuration preferences.
InitializeFromPrefs(s) ==
    [s EXCEPT !.auto_hide_delay_ = InitialAutoHideDelay(s.prefs.kAutoHideDelayMs),
              !.animation_duration_ =
                  InitialAnimationDuration(s.prefs.kAnimationDurationMs),
              !.top_edge_sensitivity_px_ =
                  InitialSensitivity(s.prefs.kTopEdgeSensitivityPx),
              !.show_on_address_bar_focus_ = s.prefs.kShowOnAddressBarFocus,
              !.show_on_keyboard_activity_ = s.prefs.kShowOnKeyboardActivity]

----------------------------------------------------------------------------
(* The state machine *)

\* Values of the given notification in a log, in order.
Notified(l, kind) ==
    LET sel == SelectSeq(l, LAMBDA e : e.kind = kind)
    IN  [i \in 1..Len(sel) |-> sel[i].value]

\* A bool as the history variables and lastOp.arg hold it.
Str(b) == IF b THEN "true" ELSE "false"

LastOr(seq, default) == IF Len(seq) = 0 THEN default ELSE Str(seq[Len(seq)])

\* new ImmersiveFullscreenEventHandler(): the fields the constructor
\* assigns.  autoHideTimer is "null", "pending" (the id of a timeout that
\* has not run yet) or "expired" (the id of a timeout that has run: the
\* callback does not reset the field).  `listening` is whether
\* initializeEventListeners' registrations are still in place and
\* `dispatched` the CustomEvents the current handler call has dispatched.
ImmersiveFullscreenEventHandler ==
    [isEnabled |-> FALSE, isUIVisible |-> TRUE, mouseTrackingActive |-> FALSE,
     lastMousePosition |-> [x |-> 0, y |-> 0], topEdgeSensitivity |-> 5,
     autoHideTimer |-> "null", autoHideDelay |-> 2000,
     listening |-> TRUE, dispatched |-> <<>>]

\* The page when the handler is constructed: the pointer's clientY and
\* whether document.activeElement is the address bar.  The page has an
\* address bar and no window.chrome object.
DOMContentLoaded == [clientY |-> 0, addressBarIsActiveElement |-> FALSE]

\* The operation `op` (with argument `arg`) leaves the controller as `s`.
Commit(op, arg, s) ==
    /\ UNCHANGED <<handler, document>>
    /\ state_' = s.state_
    /\ animation_state_' = s.animation_state_
    /\ should_show_ui_' = s.should_show_ui_
    /\ address_bar_focused_' = s.address_bar_focused_
    /\ mouse_in_top_edge_' = s.mouse_in_top_edge_
    /\ auto_hide_timer_' = s.auto_hide_timer_
    /\ animation_' = s.animation_
    /\ animation_duration_' = s.animation_duration_
    /\ auto_hide_delay_' = s.auto_hide_delay_
    /\ top_edge_sensitivity_px_' = s.top_edge_sensitivity_px_
    /\ show_on_address_bar_focus_' = s.show_on_address_bar_focus_
    /\ show_on_keyboard_activity_' = s.show_on_keyboard_activity_
    /\ views' = s.views
    /\ observers_' = s.observers_
    /\ prefs' = s.prefs
    /\ log' = s.log
    /\ lastOp' = [op |-> op, arg |-> arg]
    /\ lastToggled' =
           LastOr(Notified(s.log, "OnImmersiveModeToggled"), lastToggled)
    /\ lastVisibility' =
           LastOr(Notified(s.log, "OnImmersiveUIVisibilityChanged"), lastVisibility)

Init ==
    /\ state_ = "kDisabled"
    /\ animation_state_ = "kNone"
    /\ should_show_ui_ = FALSE
    /\ address_bar_focused_ = FALSE
    /\ mouse_in_top_edge_ = FALSE
    /\ auto_hide_timer_ = FALSE
    /\ animation_ = [showing |-> FALSE, running |-> FALSE, value |-> 0]
    /\ animation_duration_ = InitialAnimationDuration(kDefaultAnimationDuration)
    /\ auto_hide_delay_ = InitialAutoHideDelay(kDefaultAutoHideDelay)
    /\ \E p \in SensitivityPrefs : top_edge_sensitivity_px_ = InitialSensitivity(p)
    /\ show_on_address_bar_focus_ \in BOOLEAN
    /\ show_on_keyboard_activity_ \in BOOLEAN
    /\ views = [e \in ManagedElements |-> "unset"]
    /\ observers_ = <<>>
    /\ \E p \in LivePrefs, seen \in BOOLEAN :
           prefs = [kImmersiveFullscreenEnabled |-> p.kImmersiveFullscreenEnabled,
                    kRespectLegacyFullscreenPref |-> p.kRespectLegacyFullscreenPref,
                    kShowFullscreenToolbar |-> p.kShowFullscreenToolbar,
                    kHasSeenIntroduction |-> seen]
    /\ log = <<>>
    /\ lastOp = [op |-> "constructor", arg |-> "none"]
    /\ lastToggled = "none"
    /\ lastVisibility = "none"
    /\ handler = ImmersiveFullscreenEventHandler
    /\ document = DOMContentLoaded

CallSetEnabled == \E enabled \in BOOLEAN :
    Commit("SetEnabled", Str(enabled), SetEnabled(Self, enabled))

CallRevealUI == Commit("RevealUI", "none", RevealUI(Self))

CallHideUIAfterDelay == Commit("HideUIAfterDelay", "none", HideUIAfterDelay(Self))

CallHideUIImmediately == Commit("HideUIImmediately", "none", HideUIImmediately(Self))

CallPinUI == Commit("PinUI", "none", PinUI(Self))

CallUnpinUI == Commit("UnpinUI", "none", UnpinUI(Self))

CallOnMouseMoved == \E p \in Points, b \in WindowBounds :
    Commit("OnMouseMoved", Str(IsMouseInTopEdge(Self, p, b)), OnMouseMoved(Self, p, b))

CallOnAddressBarFocused ==
    Commit("OnAddressBarFocused", "none", OnAddressBarFocused(Self))

CallOnAddressBarBlurred ==
    Commit("OnAddressBarBlurred", "none", OnAddressBarBlurred(Self))

CallOnKeyboardActivity ==
    Commit("OnKeyboardActivity", "none", OnKeyboardActivity(Self))

CallOnFullscreenStateChanged == \E is_fullscreen \in BOOLEAN :
    Commit("OnFullscreenStateChanged", Str(is_fullscreen),
           OnFullscreenStateChanged(Self, is_fullscreen))

CallOnActiveTabChanged ==
    Commit("OnActiveTabChanged", "none", OnActiveTabChanged(Self))

CallAddObserver == \E o \in Observers :
    Commit("AddObserver", o, AddObserver(Self, o))

CallRemoveObserver == \E o \in Observers :
    Commit("RemoveObserver", o, RemoveObserver(Self, o))

CallOnWidgetDestroying ==
    Commit("OnWidgetDestroying", "none", OnWidgetDestroying(Self))

\* The test fixture sets the duration before it drives the controller.
CallSetAnimationDurationForTesting == \E d \in TestDurations :
    /\ state_ = "kDisabled"
    /\ ~animation_.running
    /\ Commit("SetAnimationDurationForTesting", Str(d = 0),
              SetAnimationDurationForTesting(Self, d))

CallTriggerAutoHideTimerForTesting ==
    Commit("TriggerAutoHideTimerForTesting", "none",
           TriggerAutoHideTimerForTesting(Self))

\* The auto-hide delay elapses.
TimerFired ==
    /\ auto_hide_timer_
    /\ Commit("TimerFired", "none", AutoHideTimerFired(Self))

\* The animation container delivers one frame.
AnimationTick ==
    /\ animation_.running
    /\ \E v \in SlideNextValues(animation_) :
           Commit("AnimationTick", "none", SlideStep(Self, v))

Next ==
    \/ CallSetEnabled
    \/ CallRevealUI
    \/ CallHideUIAfterDelay
    \/ CallHideUIImmediately
    \/ CallPinUI
    \/ CallUnpinUI
    \/ CallOnMouseMoved
    \/ CallOnAddressBarFocused
    \/ CallOnAddressBarBlurred
    \/ CallOnKeyboardActivity
    \/ CallOnFullscreenStateChanged
    \/ CallOnActiveTabChanged
    \/ CallAddObserver
    \/ CallRemoveObserver
    \/ CallOnWidgetDestroying
    \/ CallSetAnimationDurationForTesting
    \/ CallTriggerAutoHideTimerForTesting
    \/ TimerFired
    \/ AnimationTick

Spec == Init /\ [][Next]_vars

----------------------------------------------------------------------------
(* Vocabulary of the properties *)

\* The observer notifications of a log, in order, without the view commands.
Notifications(l) ==
    LET sel == SelectSeq(l, LAMBDA e : e.kind # "SetVisible")
    IN  [i \in 1..Len(sel) |-> <<sel[i].kind, sel[i].value>>]

\* The SetVisible commands of a log, in order.
Commands(l) ==
    LET sel == SelectSeq(l, LAMBDA e : e.kind = "SetVisible")
    IN  [i \in 1..Len(sel) |-> <<sel[i].to, sel[i].value>>]

AllViews(v) == \A e \in ManagedElements : views[e] = v

AllViewsNext(v) == \A e \in ManagedElements : views'[e] = v

VisibleInMode(mode) ==
    IF mode = "kRevealed" \/ mode = "kPinned" THEN "visible" ELSE "hidden"

\* The controller's own members are left as they were.
MembersUnchanged ==
    UNCHANGED <<state_, animation_state_, should_show_ui_, address_bar_focused_,
                mouse_in_top_edge_, auto_hide_timer_, animation_,
                animation_duration_, auto_hide_delay_, views, observers_, prefs>>

----------------------------------------------------------------------------
(* C1 *)

\* C1: in every reachable state, if Mode = Pinned then the auto-hide timer is
\* not pending.
C1_PinnedHasNoTimer == state_ = "kPinned" => ~auto_hide_timer_

\* PinUI has acted on a revealed UI (whose timer it had to cancel).
C1_Witness ==
    /\ state_ = "kPinned"
    /\ lastOp.op = "PinUI"
    /\ log = <<>>
    /\ ~should_show_ui_ /\ ~address_bar_focused_

(* C2 *)

C3_TimerOnlyWhenRevealedUnheld ==
    auto_hide_timer_ =>
        (state_ = "kRevealed" /\ ~should_show_ui_ /\ ~address_bar_focused_)

(* C4 *)

\* C4: AnimationPhase = Showing implies Mode is Revealed or Pinned, and
\* AnimationPhase = Hiding implies Mode = Enabled.
C4_PhaseMatchesMode ==
    /\ animation_state_ = "kShowingUI" => state_ \in {"kRevealed", "kPinned"}
    /\ animation_state_ = "kHidingUI" => state_ = "kEnabled"

\* A show animation is in flight while pinned, and the UI was pinned from the
\* hidden state.
C4_Witness ==
    /\ animation_state_ = "kShowingUI"
    /\ state_ = "kPinned"
    /\ animation_.running

(* C5 *)

\* C5: OnAddressBarFocused always leaves the auto-hide timer not pending,
\* whatever show_on_address_bar_focus_ is; so no timer is pending while the
\* address bar is focused.
C5_FocusCancelsTimer ==
    (lastOp.op = "OnAddressBarFocused" \/ address_bar_focused_) => ~auto_hide_timer_

(* C6 *)

\* C6: after SetEnabled(true) from Disabled with neither signal set, Mode =
\* Enabled, no OnImmersiveUIVisibilityChanged(true) was emitted, and once no
\* animation is running every managed view has been commanded hidden.
C6_EnableHidesViews ==
    (/\ lastOp = [op |-> "SetEnabled", arg |-> "true"]
     /\ Notifications(log) = << <<"OnImmersiveModeToggled", TRUE>> >>
     /\ ~should_show_ui_ /\ ~address_bar_focused_)
        => /\ state_ = "kEnabled"
           /\ (~animation_.running => AllViews("hidden"))

(* C7 *)

\* A frame has just ended the animation.
AnimationSettles == lastOp'.op = "AnimationTick" /\ ~animation_'.running

\* C7: RevealUI during a running hide animation turns the animation round and
\* leaves Mode Revealed or Pinned; and every animation completion sets
\* AnimationPhase = kNone and commands every managed view by the Mode at
\* completion time (visible exactly when Mode is Revealed or Pinned).
C7_CompletionFollowsCurrentMode ==
    [][/\ (lastOp'.op = "RevealUI" /\ animation_.running /\ ~animation_.showing)
            => /\ state_' \in {"kRevealed", "kPinned"}
               /\ animation_'.running /\ animation_'.showing
               /\ animation_state_' = "kShowingUI"
       /\ AnimationSettles
            => /\ animation_state_' = "kNone"
               /\ AllViewsNext(VisibleInMode(state_'))
               /\ Len(Commands(log')) = 6
               /\ \A i \in 4..6 : Commands(log')[i][2] = (VisibleInMode(state_') = "visible")
      ]_vars

\* A show animation that began part-way (a reversed hide) has completed
\* while revealed, and the views were commanded visible.
C7_Witness ==
    /\ lastOp.op = "AnimationTick"
    /\ ~animation_.running
    /\ animation_.showing
    /\ state_ = "kRevealed"
    /\ AllViews("visible")
    /\ lastVisibility = "true"

(* C8 *)

\* C8: OnMouseMoved into the hover zone while Mode = Enabled and the pointer
\* signal false emits exactly OnMouseHoverStateChanged(true) and then
\* OnImmersiveUIVisibilityChanged(true) and leaves Mode = Revealed; an
\* OnMouseMoved inside the zone while the signal is already true emits no
\* notification.
C8_HoverThenVisibility ==
    [][(lastOp'.op = "OnMouseMoved" /\ lastOp'.arg = "true" /\ state_ # "kDisabled")
          => /\ (state_ = "kEnabled" /\ ~should_show_ui_)
                  => /\ Notifications(log') =
                            << <<"OnMouseHoverStateChanged", TRUE>>,
                               <<"OnImmersiveUIVisibilityChanged", TRUE>> >>
                     /\ state_' = "kRevealed"
             /\ should_show_ui_ => Notifications(log') = << >>
      ]_vars

\* The pointer has just entered the zone of an enabled, hidden UI.
C8_Witness ==
    /\ lastOp = [op |-> "OnMouseMoved", arg |-> "true"]
    /\ state_ = "kRevealed"
    /\ Notifications(log) = << <<"OnMouseHoverStateChanged", TRUE>>,
                               <<"OnImmersiveUIVisibilityChanged", TRUE>> >>

(* C9 *)

\* C9: SetEnabled(true) on an enabled controller and SetEnabled(false) on a
\* disabled one change no member, command no view and notify nobody; an
\* accepted SetEnabled(true) emits exactly one OnImmersiveModeToggled(true);
\* and over a run the OnImmersiveModeToggled values alternate true, false, ...
C9_SetEnabledIdempotent ==
    [][/\ (lastOp'.op = "SetEnabled" /\ lastOp'.arg = "true" /\ state_ # "kDisabled")
            => (log' = << >> /\ MembersUnchanged)
       /\ (lastOp'.op = "SetEnabled" /\ lastOp'.arg = "false" /\ state_ = "kDisabled")
            => (log' = << >> /\ MembersUnchanged)
       /\ (lastOp'.op = "SetEnabled" /\ lastOp'.arg = "true" /\ state_ = "kDisabled"
           /\ ~ShouldDisableImmersiveMode(Self))
            => Notified(log', "OnImmersiveModeToggled") = <<TRUE>>
       /\ LET toggled == Notified(log', "OnImmersiveModeToggled")
          IN  /\ Len(toggled) <= 1
              /\ Len(toggled) = 1 =>
                    /\ Str(toggled[1]) # lastToggled
                    /\ lastToggled = "none" => toggled[1] = TRUE
      ]_vars

\* SetEnabled(true) was called again on a controller that an earlier
\* SetEnabled(true) had enabled: the second call emitted nothing.
C9_Witness ==
    /\ lastOp = [op |-> "SetEnabled", arg |-> "true"]
    /\ state_ # "kDisabled"
    /\ lastToggled = "true"
    /\ log = << >>

(* C10 *)

AutoHideFires == lastOp'.op \in {"TimerFired", "TriggerAutoHideTimerForTesting"}

\* C10: on an enabled controller OnMouseMoved into the zone emits
\* OnImmersiveUIVisibilityChanged(true); leaving the zone with no focus held
\* leaves the auto-hide timer pending; the timer firing (or
\* TriggerAutoHideTimerForTesting) while revealed emits
\* OnImmersiveUIVisibilityChanged(false), sets Mode = Enabled and starts the
\* hide animation, whose completion commands every managed view hidden.
C10_HoverLeaveAutoHides ==
    [][/\ (lastOp'.op = "OnMouseMoved" /\ lastOp'.arg = "true"
           /\ state_ = "kEnabled" /\ ~should_show_ui_)
            => \E i \in 1..Len(Notifications(log')) :
                   Notifications(log')[i] = <<"OnImmersiveUIVisibilityChanged", TRUE>>
       /\ (lastOp'.op = "OnMouseMoved" /\ lastOp'.arg = "false"
           /\ state_ = "kRevealed" /\ should_show_ui_ /\ ~address_bar_focused_)
            => (auto_hide_timer_' /\ state_' = "kRevealed")
       /\ (AutoHideFires /\ state_ = "kRevealed")
            => /\ Notifications(log') = << <<"OnImmersiveUIVisibilityChanged", FALSE>> >>
               /\ state_' = "kEnabled"
               /\ ~auto_hide_timer_'
               /\ animation_state_' = "kHidingUI" \/ AllViewsNext("hidden")
               /\ (animation_'.running /\ ~animation_'.showing) \/ AllViewsNext("hidden")
       /\ (AnimationSettles /\ state_ = "kEnabled") => AllViewsNext("hidden")
      ]_vars

\* The auto-hide timer scheduled when the pointer left the zone has fired
\* and hidden the revealed UI.
C10_Witness ==
    /\ lastOp.op = "TimerFired"
    /\ state_ = "kEnabled"
    /\ Notifications(log) = << <<"OnImmersiveUIVisibilityChanged", FALSE>> >>
    /\ ~should_show_ui_ /\ ~address_bar_focused_
    /\ animation_.running

(* C11 *)

\* C11: while Mode = Pinned, HideUIImmediately, HideUIAfterDelay and an
\* auto-hide timer trigger change no member and emit nothing; UnpinUI from
\* Pinned sets Mode = Revealed and leaves the auto-hide timer pending exactly
\* when neither the pointer signal nor the focus signal holds.
C11_PinnedIgnoresHide ==
    [][/\ (state_ = "kPinned"
           /\ lastOp'.op \in {"HideUIImmediately", "HideUIAfterDelay", "TimerFired",
                              "TriggerAutoHideTimerForTesting"})
            => (log' = << >> /\ MembersUnchanged)
       /\ (state_ = "kPinned" /\ lastOp'.op = "UnpinUI")
            => /\ state_' = "kRevealed"
               /\ log' = << >>
               /\ auto_hide_timer_' = (~should_show_ui_ /\ ~address_bar_focused_)
      ]_vars

\* UnpinUI has left a revealed UI with no signal held and its timer pending,
\* while the show animation the pin started is still in flight.
C11_Witness ==
    /\ lastOp.op = "UnpinUI"
    /\ state_ = "kRevealed"
    /\ auto_hide_timer_
    /\ ~should_show_ui_ /\ ~address_bar_focused_
    /\ animation_state_ = "kShowingUI"

(* C12 *)

\* C12: with kRespectLegacyFullscreenPref and kShowFullscreenToolbar both
\* true, SetEnabled(true) on a disabled controller changes no member (Mode
\* stays Disabled, no animation or timer starts, kHasSeenIntroduction keeps
\* its value) and emits no notification and no view command.
C12_LegacyRefusesEnable ==
    [][(/\ lastOp' = [op |-> "SetEnabled", arg |-> "true"]
        /\ state_ = "kDisabled"
        /\ prefs.kRespectLegacyFullscreenPref /\ prefs.kShowFullscreenToolbar)
          => /\ state_' = "kDisabled"
             /\ log' = << >>
             /\ MembersUnchanged
             /\ lastToggled' = lastToggled
      ]_vars

\* SetEnabled(true) was refused on a profile that has never seen the
\* introduction and whose legacy preference suppresses immersive mode.
C12_Witness ==
    /\ lastOp = [op |-> "SetEnabled", arg |-> "true"]
    /\ state_ = "kDisabled"
    /\ prefs.kRespectLegacyFullscreenPref /\ prefs.kShowFullscreenToolbar
    /\ ~prefs.kHasSeenIntroduction
    /\ log = << >>

----------------------------------------------------------------------------
(* The hover zone: OnMouseMoved over a grid of screen points *)

\* Screen coordinates run from -1 to MaxCoord.
MaxCoord == 6

EdgePoints == [x : (-1)..MaxCoord, y : (-1)..MaxCoord]

\* Windows at and off the screen origin, three pixels wide.
EdgeBounds == [x : {0, 1}, y : {0, 1}, width : {3}, height : {8}]

\* kTopEdgeSensitivityPx values: unset (the default applies), 1 and 2.
EdgeSensitivityPrefs == {0, 1, 2}

\* A controller constructed over the fixture's preferences, for each
\* hover-zone size.
TopEdgeInit ==
    /\ state_ = "kDisabled"
    /\ animation_state_ = "kNone"
    /\ should_show_ui_ = FALSE
    /\ address_bar_focused_ = FALSE
    /\ mouse_in_top_edge_ = FALSE
    /\ auto_hide_timer_ = FALSE
    /\ animation_ = [showing |-> FALSE, running |-> FALSE, value |-> 0]
    /\ animation_duration_ = InitialAnimationDuration(kDefaultAnimationDuration)
    /\ auto_hide_delay_ = InitialAutoHideDelay(kDefaultAutoHideDelay)
    /\ \E p \in EdgeSensitivityPrefs : top_edge_sensitivity_px_ = InitialSensitivity(p)
    /\ show_on_address_bar_focus_ = TRUE
    /\ show_on_keyboard_activity_ = FALSE
    /\ views = [e \in ManagedElements |-> "unset"]
    /\ observers_ = <<>>
    /\ prefs = [kImmersiveFullscreenEnabled |-> TRUE,
                kRespectLegacyFullscreenPref |-> TRUE,
                kShowFullscreenToolbar |-> FALSE,
                kHasSeenIntroduction |-> FALSE]
    /\ log = <<>>
    /\ lastOp = [op |-> "constructor", arg |-> "none"]
    /\ lastToggled = "none"
    /\ lastVisibility = "none"
    /\ handler = ImmersiveFullscreenEventHandler
    /\ document = DOMContentLoaded

\* OnMouseMoved with the point and the window bounds kept in lastOp.arg.
CallOnMouseMovedAnywhere == \E p \in EdgePoints, b \in EdgeBounds :
    Commit("OnMouseMoved", [p |-> p, b |-> b], OnMouseMoved(Self, p, b))

TopEdgeNext ==
    \/ CallSetEnabled
    \/ CallOnMouseMovedAnywhere

TopEdgeSpec == TopEdgeInit /\ [][TopEdgeNext]_vars

(* C13 *)

\* C13: after OnMouseMoved(p) on an enabled controller whose window has
\* bounds b, mouse_in_top_edge_ is true exactly when b.x <= p.x < b.right and
\* b.y <= p.y < b.y + top_edge_sensitivity_px_; the far edge
\* p.y = b.y + top_edge_sensitivity_px_ is outside the zone.
C13_TopEdgeHalfOpen ==
    (lastOp.op = "OnMouseMoved" /\ state_ # "kDisabled") =>
        LET p == lastOp.arg.p
            b == lastOp.arg.b
        IN  /\ mouse_in_top_edge_ =
                   (/\ b.x <= p.x /\ p.x < b.x + b.width
                    /\ b.y <= p.y /\ p.y < b.y + top_edge_sensitivity_px_)
            /\ should_show_ui_ = mouse_in_top_edge_

\* The pointer sits on the far edge of a 5-pixel zone (y = 5, window at
\* y = 0), inside the window's width, and is not hovering.
C13_Witness ==
    /\ lastOp.op = "OnMouseMoved"
    /\ state_ # "kDisabled"
    /\ top_edge_sensitivity_px_ = kDefaultTopEdgeSensitivity
    /\ lastOp.arg.b.y = 0
    /\ lastOp.arg.p.y = kDefaultTopEdgeSensitivity
    /\ lastOp.arg.p.x = lastOp.arg.b.x
    /\ ~mouse_in_top_edge_

----------------------------------------------------------------------------
(* C14 *)

\* C14: HideUIImmediately called while the address bar is focused and the UI
\* is visible (Mode Revealed or Pinned) leaves IsUIVisible() true.
C14_FocusBlocksHide ==
    [][(/\ lastOp'.op = "HideUIImmediately"
        /\ address_bar_focused_
        /\ state_ \in {"kRevealed", "kPinned"})
          => state_' \in {"kRevealed", "kPinned"}
      ]_vars

(* C15 *)

\* C15: once OnWidgetDestroying has returned, no auto-hide timer is pending
\* and no animation is in flight, so that no timer firing and no animation
\* frame commands a view or notifies an observer afterwards.
C15_DestroyingTearsDown ==
    [][lastOp.op = "OnWidgetDestroying"
          => /\ ~auto_hide_timer_
             /\ ~animation_.running
             /\ lastOp'.op \in {"TimerFired", "AnimationTick"} => log' = << >>
      ]_vars

(* C16 *)

\* The operation that has just returned cancels the auto-hide timer.
CancelsTimer ==
    \/ lastOp'.op \in {"RevealUI", "PinUI", "HideUIImmediately"}
    \/ lastOp' = [op |-> "SetEnabled", arg |-> "false"]

C17_FullscreenFollowsPref ==
    [][lastOp'.op = "OnFullscreenStateChanged"
          => /\ (lastOp'.arg = "true" /\ ~prefs.kImmersiveFullscreenEnabled)
                  => (log' = << >> /\ MembersUnchanged)
             /\ (lastOp'.arg = "true" /\ prefs.kImmersiveFullscreenEnabled)
                  => /\ state_' = SetEnabled(Self, TRUE).state_
                     /\ log' = SetEnabled(Self, TRUE).log
                     /\ prefs' = SetEnabled(Self, TRUE).prefs
             /\ lastOp'.arg = "false" => state_' = "kDisabled"
      ]_vars

\* Leaving fullscreen has disabled a controller whose immersive preference
\* is false (it had been enabled by SetEnabled).
C17_Witness ==
    /\ lastOp = [op |-> "OnFullscreenStateChanged", arg |-> "false"]
    /\ state_ = "kDisabled"
    /\ ~prefs.kImmersiveFullscreenEnabled
    /\ Notifications(log) = << <<"OnImmersiveModeToggled", FALSE>> >>

(* C18 *)

InSeq(x, seq) == \E i \in 1..Len(seq) : seq[i] = x

NoDuplicates(seq) ==
    \A i, j \in 1..Len(seq) : i # j => seq[i] # seq[j]

\* C18: every notification an operation emits goes to exactly the observers
\* registered when it is emitted, each once, in registration order: the
\* list holds no observer twice, AddObserver appends a new observer at the
\* end, RemoveObserver takes the observer out and keeps the order of the
\* others, and no other operation changes the list.
C18_DeliveredOnceInOrder ==
    [][/\ \A i \in 1..Len(log') :
              log'[i].kind # "SetVisible" => log'[i].to = observers_
       /\ NoDuplicates(observers_')
       /\ lastOp'.op = "AddObserver"
            => observers_' = (IF InSeq(lastOp'.arg, observers_) THEN observers_
                              ELSE Append(observers_, lastOp'.arg))
       /\ lastOp'.op = "RemoveObserver"
            => /\ ~InSeq(lastOp'.arg, observers_')
               /\ observers_' = SelectSeq(observers_, LAMBDA o : o # lastOp'.arg)
       /\ lastOp'.op \notin {"AddObserver", "RemoveObserver"}
            => observers_' = observers_
      ]_vars

\* A mode change was notified to observer2 and then to observer1, the order
\* in which they had registered.
C18_Witness ==
    \E i \in 1..Len(log) :
        /\ log[i].kind = "OnImmersiveModeToggled"
        /\ log[i].to = <<"observer2", "observer1">>

(* C19 *)

\* C19: an operation emits at most one OnImmersiveUIVisibilityChanged;
\* (true) is emitted exactly when the UI goes from not visible to visible,
\* (false) only when it goes from visible to hidden in an enabled Mode, and
\* the UI stops being visible only with (false) or with
\* OnImmersiveModeToggled(false).  So two (true) are always separated by a
\* (false) or a mode-off, and a (false) always follows a (true) of the same
\* enabled session.
C19_VisibilityNotifiedOnce ==
    [][LET vis == Notified(log', "OnImmersiveUIVisibilityChanged")
           off == Notified(log', "OnImmersiveModeToggled") = <<FALSE>>
           was_visible == state_ \in {"kRevealed", "kPinned"}
           is_visible == state_' \in {"kRevealed", "kPinned"}
       IN  /\ Len(vis) <= 1
           /\ vis = <<TRUE>> <=> (~was_visible /\ is_visible)
           /\ vis = <<FALSE>>
                => /\ was_visible /\ ~is_visible
                   /\ state_' = "kEnabled"
                   /\ lastVisibility = "true"
           /\ (was_visible /\ ~is_visible) => (vis = <<FALSE>> \/ off)
           /\ was_visible => lastVisibility = "true"
      ]_vars

\* RevealUI was called on an already revealed UI and notified nobody.
C19_Witness ==
    /\ lastOp.op = "RevealUI"
    /\ state_ = "kRevealed"
    /\ log = << >>
    /\ lastVisibility = "true"

----------------------------------------------------------------------------
(* Configuration load: the constructor's InitializeFromPrefs over a range  *)
(* of preference values                                                    *)

\* The numeric preferences range over -MaxPrefMagnitude .. MaxPrefMagnitude.
MaxPrefMagnitude == 2

NumericPrefValues == (-MaxPrefMagnitude)..MaxPrefMagnitude

\* The controller as its default member initializers leave it, before the
\* constructor body runs, over a preference store holding any values.
PrefsInit ==
    /\ state_ = "kDisabled"
    /\ animation_state_ = "kNone"
    /\ should_show_ui_ = FALSE
    /\ address_bar_focused_ = FALSE
    /\ mouse_in_top_edge_ = FALSE
    /\ auto_hide_timer_ = FALSE
    /\ animation_ = [showing |-> FALSE, running |-> FALSE, value |-> 0]
    /\ animation_duration_ = 0
    /\ auto_hide_delay_ = 0
    /\ top_edge_sensitivity_px_ = kDefaultTopEdgeSensitivity
    /\ show_on_address_bar_focus_ = TRUE
    /\ show_on_keyboard_activity_ = FALSE
    /\ views = [e \in ManagedElements |-> "unset"]
    /\ observers_ = <<>>
    /\ \E delay \in NumericPrefValues, duration \in NumericPrefValues,
          px \in NumericPrefValues, on_focus \in BOOLEAN, on_keys \in BOOLEAN :
           prefs = [kImmersiveFullscreenEnabled |-> TRUE,
                    kRespectLegacyFullscreenPref |-> TRUE,
                    kShowFullscreenToolbar |-> FALSE,
                    kHasSeenIntroduction |-> FALSE,
                    kAutoHideDelayMs |-> delay,
                    kAnimationDurationMs |-> duration,
                    kTopEdgeSensitivityPx |-> px,
                    kShowOnAddressBarFocus |-> on_focus,
                    kShowOnKeyboardActivity |-> on_keys]
    /\ log = <<>>
    /\ lastOp = [op |-> "allocated", arg |-> "none"]
    /\ lastToggled = "none"
    /\ lastVisibility = "none"
    /\ handler = ImmersiveFullscreenEventHandler
    /\ document = DOMContentLoaded

\* The constructor body loads the configuration, once.
CallInitializeFromPrefs ==
    /\ lastOp.op = "allocated"
    /\ Commit("InitializeFromPrefs", "none", InitializeFromPrefs(Self))

PrefsNext == CallInitializeFromPrefs

PrefsSpec == PrefsInit /\ [][PrefsNext]_vars

(* C20 *)

\* C20: for every value of kTopEdgeSensitivityPx, kAutoHideDelayMs and
\* kAnimationDurationMs, after InitializeFromPrefs top_edge_sensitivity_px_
\* is positive and auto_hide_delay_ and animation_duration_ are not negative.
C20_PrefsClamped ==
    lastOp.op = "InitializeFromPrefs"
        => /\ top_edge_sensitivity_px_ > 0
           /\ auto_hide_delay_ >= 0
           /\ animation_duration_ >= 0

----------------------------------------------------------------------------
(* C21 *)

\* C21: the constructed controller has Mode = kDisabled, IsEnabled() false
\* and IsUIVisible() false; in every reachable state Mode is one of the four
\* State values, IsEnabled() is (Mode # kDisabled) and IsUIVisible() is
\* (Mode is kRevealed or kPinned).
C21_ModeIsOneOfFour ==
    /\ state_ \in States
    /\ lastOp.op = "constructor"
         => (state_ = "kDisabled" /\ ~IsEnabled(Self) /\ ~IsUIVisible(Self))
    /\ IsEnabled(Self) = (state_ # "kDisabled")
    /\ IsUIVisible(Self) = (state_ \in {"kRevealed", "kPinned"})

\* The UI has been pinned: enabled and visible.
C21_Witness ==
    /\ state_ = "kPinned"
    /\ lastOp.op = "PinUI"
    /\ IsEnabled(Self)
    /\ IsUIVisible(Self)

(* C22 *)

\* No timer is pending, AnimationPhase is kNone and every managed view was
\* last commanded visible.
IdleAndAllVisible ==
    /\ ~auto_hide_timer_
    /\ animation_state_ = "kNone"
    /\ AllViews("visible")

\* C22 as stated: in every reachable state, if no timer is pending,
\* AnimationPhase is kNone and every managed view was last commanded
\* visible, then Mode = kDisabled.
C22_IdleVisibleImpliesDisabled == IdleAndAllVisible => state_ = "kDisabled"

\* C22 amended: in every reachable state, if no timer is pending,
\* AnimationPhase is kNone and every managed view was last commanded
\* visible, then Mode is not kEnabled (it is kDisabled, or the UI is shown:
\* kRevealed or kPinned).
C22_IdleVisibleNotEnabled == IdleAndAllVisible => state_ # "kEnabled"

\* A revealed UI whose show animation has completed while the pointer
\* holds it: idle, all views visible, no timer, and not disabled.
C22_Witness ==
    /\ IdleAndAllVisible
    /\ state_ = "kRevealed"
    /\ should_show_ui_
    /\ lastOp.op = "AnimationTick"

(* C23 *)

\* C23: RevealUI while Mode is kRevealed or kPinned leaves Mode as it is,
\* notifies nobody and changes no member other than the auto-hide timer,
\* which is not pending afterwards; RevealUI while Mode = kEnabled sets
\* Mode = kRevealed and emits exactly one
\* OnImmersiveUIVisibilityChanged(true).
C23_RevealIdempotent ==
    [][lastOp'.op = "RevealUI"
          => /\ state_ \in {"kRevealed", "kPinned"}
                  => /\ state_' = state_
                     /\ Notifications(log') = << >>
                     /\ ~auto_hide_timer_'
                     /\ UNCHANGED <<animation_state_, animation_, views,
                                    should_show_ui_, address_bar_focused_,
                                    mouse_in_top_edge_, observers_, prefs>>
             /\ state_ = "kEnabled"
                  => /\ state_' = "kRevealed"
                     /\ Notifications(log') =
                            << <<"OnImmersiveUIVisibilityChanged", TRUE>> >>
      ]_vars

(* C24 *)

\* Every member but the auto-hide timer is left as it was.
OnlyTimerMayChange ==
    UNCHANGED <<state_, animation_state_, should_show_ui_, address_bar_focused_,
                mouse_in_top_edge_, animation_, animation_duration_,
                auto_hide_delay_, views, observers_, prefs>>

\* C24: HideUIAfterDelay changes nothing when Mode is kDisabled or kPinned or
\* when the pointer signal or the focus signal holds; otherwise its only
\* effect is that the auto-hide timer is pending, whether or not it was
\* pending before; and the firing of the timer leaves no timer pending, so
\* any number of calls before the firing yields one firing.
C24_HideAfterDelaySchedulesOnce ==
    [][/\ lastOp'.op = "HideUIAfterDelay"
            => /\ log' = << >>
               /\ IF \/ state_ \in {"kDisabled", "kPinned"}
                     \/ should_show_ui_ \/ address_bar_focused_
                  THEN MembersUnchanged
                  ELSE auto_hide_timer_' /\ OnlyTimerMayChange
       /\ lastOp'.op = "TimerFired" => (auto_hide_timer_ /\ ~auto_hide_timer_')
      ]_vars

\* HideUIAfterDelay was called on a revealed UI that no signal holds, and
\* the timer is pending.
C24_Witness ==
    /\ lastOp.op = "HideUIAfterDelay"
    /\ state_ = "kRevealed"
    /\ ~should_show_ui_ /\ ~address_bar_focused_
    /\ auto_hide_timer_

(* C25 *)

\* Operations by which a caller asks for the UI to be hidden or disabled.
ExplicitHide ==
    lastOp'.op \in {"HideUIImmediately", "TriggerAutoHideTimerForTesting",
                    "SetEnabled", "OnFullscreenStateChanged"}

\* C25: when OnMouseMoved takes the pointer out of the hover zone of an
\* enabled controller, exactly OnMouseHoverStateChanged(false) is emitted,
\* the pointer signal is cleared and Mode is kept; with the address bar
\* focused no timer is pending afterwards, and with it not focused and the
\* UI revealed the timer is pending.  While the focus is held no step
\* schedules the timer, and a visible UI stays visible unless a caller
\* asks for it to be hidden.
C25_LeaveSchedulesUnlessFocused ==
    [][/\ (/\ lastOp'.op = "OnMouseMoved" /\ lastOp'.arg = "false"
           /\ mouse_in_top_edge_ /\ state_ # "kDisabled")
            => /\ Notifications(log') = << <<"OnMouseHoverStateChanged", FALSE>> >>
               /\ ~should_show_ui_' /\ ~mouse_in_top_edge_'
               /\ state_' = state_
               /\ address_bar_focused_ => ~auto_hide_timer_'
               /\ (~address_bar_focused_ /\ state_ = "kRevealed") => auto_hide_timer_'
       /\ (address_bar_focused_ /\ address_bar_focused_' /\ ~auto_hide_timer_)
            => /\ ~auto_hide_timer_'
               /\ (state_ \in {"kRevealed", "kPinned"} /\ ~ExplicitHide)
                    => state_' \in {"kRevealed", "kPinned"}
      ]_vars

\* The pointer has left the zone of a revealed UI while the address bar is
\* focused: hover(false) was notified, no timer is pending, the UI is shown.
C25_Witness ==
    /\ lastOp = [op |-> "OnMouseMoved", arg |-> "false"]
    /\ Notifications(log) = << <<"OnMouseHoverStateChanged", FALSE>> >>
    /\ address_bar_focused_
    /\ state_ = "kRevealed"
    /\ ~auto_hide_timer_

(* C26 *)

\* C26: OnAddressBarBlurred clears the focus signal in every Mode, keeps
\* Mode, and newly schedules the auto-hide timer only if the pointer signal
\* is false and Mode is neither kDisabled nor kPinned; and when the timer
\* fires after a blur with the pointer outside the zone,
\* OnImmersiveUIVisibilityChanged(false) is emitted and IsUIVisible() is
\* false.
C26_BlurThenAutoHide ==
    [][/\ lastOp'.op = "OnAddressBarBlurred"
            => /\ ~address_bar_focused_'
               /\ state_' = state_
               /\ log' = << >>
               /\ (auto_hide_timer_' /\ ~auto_hide_timer_)
                    => (~should_show_ui_ /\ state_ \notin {"kDisabled", "kPinned"})
       /\ (/\ lastOp.op = "OnAddressBarBlurred" /\ ~should_show_ui_
           /\ lastOp'.op = "TimerFired")
            => /\ Notifications(log') =
                      << <<"OnImmersiveUIVisibilityChanged", FALSE>> >>
               /\ state_' \notin {"kRevealed", "kPinned"}
      ]_vars

(* C27 *)

\* The step leaves every member, and the emitted log, as the record s has them.
LeavesAs(s) ==
    /\ state_' = s.state_
    /\ animation_state_' = s.animation_state_
    /\ should_show_ui_' = s.should_show_ui_
    /\ address_bar_focused_' = s.address_bar_focused_
    /\ mouse_in_top_edge_' = s.mouse_in_top_edge_
    /\ auto_hide_timer_' = s.auto_hide_timer_
    /\ animation_' = s.animation_
    /\ views' = s.views
    /\ observers_' = s.observers_
    /\ prefs' = s.prefs
    /\ log' = s.log

\* C27: OnKeyboardActivity leaves the controller exactly as RevealUI would
\* (same members, same notifications and view commands) when
\* show_on_keyboard_activity_ is true, and changes no member and emits
\* nothing when it is false.
C27_KeyboardActivityIsReveal ==
    [][lastOp'.op = "OnKeyboardActivity"
          => IF show_on_keyboard_activity_
             THEN LeavesAs(RevealUI(Self))
             ELSE log' = << >> /\ MembersUnchanged
      ]_vars

\* Keyboard activity has revealed a hidden UI.
C27_Witness ==
    /\ lastOp.op = "OnKeyboardActivity"
    /\ show_on_keyboard_activity_
    /\ state_ = "kRevealed"
    /\ Notifications(log) = << <<"OnImmersiveUIVisibilityChanged", TRUE>> >>

(* C28 *)

\* C28: OnActiveTabChanged changes nothing while Mode = kDisabled; from
\* kEnabled or kRevealed it ends in kRevealed with the auto-hide timer
\* pending exactly when neither signal holds; from kPinned it stays kPinned
\* with no timer pending; OnImmersiveUIVisibilityChanged(true) is emitted
\* exactly when the UI was hidden.
C28_TabChangeFlashReveals ==
    [][lastOp'.op = "OnActiveTabChanged"
          => /\ state_ = "kDisabled" => (log' = << >> /\ MembersUnchanged)
             /\ state_ \in {"kEnabled", "kRevealed"}
                  => /\ state_' = "kRevealed"
                     /\ auto_hide_timer_' = (~should_show_ui_ /\ ~address_bar_focused_)
             /\ state_ = "kPinned" => (state_' = "kPinned" /\ ~auto_hide_timer_')
             /\ Notifications(log') =
                    (IF state_ = "kEnabled"
                     THEN << <<"OnImmersiveUIVisibilityChanged", TRUE>> >>
                     ELSE << >>)
      ]_vars

\* A tab change has revealed a hidden UI that no signal holds and left the
\* auto-hide timer pending.
C28_Witness ==
    /\ lastOp.op = "OnActiveTabChanged"
    /\ state_ = "kRevealed"
    /\ auto_hide_timer_
    /\ Notifications(log) = << <<"OnImmersiveUIVisibilityChanged", TRUE>> >>

(* C29 *)

\* C29: on every animation frame the progress callback commands the three
\* managed views, in order, each visible exactly when the progress is above
\* one half (2 * value > AnimSteps); at one half and below each is commanded
\* hidden, and the three always get the same value.
C29_ProgressThreshold ==
    [][lastOp'.op = "AnimationTick"
          => /\ Len(Commands(log')) >= 3
             /\ \A i \in 1..3 :
                    Commands(log')[i] =
                        <<ElementOrder[i], 2 * animation_'.value > AnimSteps>>
      ]_vars

\* A show animation has reported progress of exactly one half, and the
\* views were commanded hidden.
C29_Witness ==
    /\ lastOp.op = "AnimationTick"
    /\ animation_.running /\ animation_.showing
    /\ 2 * animation_.value = AnimSteps
    /\ Commands(log) = << <<"kToolbar", FALSE>>, <<"kTabStrip", FALSE>>,
                          <<"kBookmarksBar", FALSE>> >>

(* C30 *)

\* C30: whenever an operation leaves AnimationPhase at kShowingUI and it was
\* not kShowingUI before, the animation is running in the show direction
\* from the progress it had (so a completion callback follows); and
\* whenever it leaves AnimationPhase at kHidingUI and it was not kHidingUI
\* before, the animation is running in the hide direction from the progress
\* it had.  While AnimationPhase already is the requested one the
\* animation is left alone.
C30_StartRunsDriver ==
    [][/\ (animation_state_ # "kShowingUI" /\ animation_state_' = "kShowingUI")
            => /\ animation_'.running /\ animation_'.showing
               /\ animation_'.value = animation_.value
       /\ (animation_state_ # "kHidingUI" /\ animation_state_' = "kHidingUI")
            => /\ animation_'.running /\ ~animation_'.showing
               /\ animation_'.value = animation_.value
      ]_vars

----------------------------------------------------------------------------
(* C31 *)

\* C31: after every OnMouseMoved the pointer signal (should_show_ui_, and
\* mouse_in_top_edge_) is the hover-zone membership of that event, in every
\* Mode including kDisabled, and no other operation changes it; after
\* OnAddressBarFocused the focus signal is true, after OnAddressBarBlurred
\* it is false, and no other operation changes it.
C31_SignalsFollowLastEvent ==
    [][/\ lastOp'.op = "OnMouseMoved"
            => /\ should_show_ui_' = (lastOp'.arg = "true")
               /\ mouse_in_top_edge_' = (lastOp'.arg = "true")
       /\ lastOp'.op # "OnMouseMoved"
            => UNCHANGED <<should_show_ui_, mouse_in_top_edge_>>
       /\ lastOp'.op = "OnAddressBarFocused" => address_bar_focused_'
       /\ lastOp'.op = "OnAddressBarBlurred" => ~address_bar_focused_'
       /\ lastOp'.op \notin {"OnAddressBarFocused", "OnAddressBarBlurred"}
            => UNCHANGED address_bar_focused_
      ]_vars

(* C32 *)

\* Operations a disabled controller ignores altogether.
IgnoredWhileDisabled ==
    lastOp'.op \in {"RevealUI", "HideUIAfterDelay", "HideUIImmediately", "PinUI",
                    "UnpinUI", "OnMouseMoved", "OnKeyboardActivity",
                    "OnActiveTabChanged", "TriggerAutoHideTimerForTesting"}

\* C32: while Mode = kDisabled, RevealUI, HideUIAfterDelay,
\* HideUIImmediately, PinUI, UnpinUI, OnMouseMoved, OnKeyboardActivity,
\* OnActiveTabChanged and TriggerAutoHideTimerForTesting change no member,
\* command no view and notify nobody; OnAddressBarFocused and
\* OnAddressBarBlurred change only address_bar_focused_.
C32_DisabledIgnoresInput ==
    [][state_ = "kDisabled"
          => /\ IgnoredWhileDisabled => (log' = << >> /\ MembersUnchanged)
             /\ lastOp'.op \in {"OnAddressBarFocused", "OnAddressBarBlurred"}
                  => /\ log' = << >>
                     /\ UNCHANGED <<state_, animation_state_, should_show_ui_,
                                    mouse_in_top_edge_, auto_hide_timer_,
                                    animation_, views, observers_, prefs>>
      ]_vars

\* A pointer event that entered the hover zone was ignored by a controller
\* that had been disabled again.
C32_Witness ==
    /\ state_ = "kDisabled"
    /\ lastOp = [op |-> "OnMouseMoved", arg |-> "true"]
    /\ lastToggled = "false"
    /\ ~should_show_ui_
    /\ log = << >>

(* C33 *)

\* C33: Mode becomes kDisabled only in SetEnabled(false) or
\* OnFullscreenStateChanged(false), and stops being kDisabled only in
\* SetEnabled(true) or OnFullscreenStateChanged(true) (which calls it);
\* OnMouseMoved never changes IsEnabled().
C33_OnlySetEnabledToggles ==
    [][/\ (state_ # "kDisabled" /\ state_' = "kDisabled")
            => lastOp' \in {[op |-> "SetEnabled", arg |-> "false"],
                            [op |-> "OnFullscreenStateChanged", arg |-> "false"]}
       /\ (state_ = "kDisabled" /\ state_' # "kDisabled")
            => lastOp' \in {[op |-> "SetEnabled", arg |-> "true"],
                            [op |-> "OnFullscreenStateChanged", arg |-> "true"]}
       /\ lastOp'.op = "OnMouseMoved"
            => (state_' = "kDisabled") = (state_ = "kDisabled")
      ]_vars

\* The pointer has left the hover zone again on an enabled controller whose
\* auto-hide is now pending: still enabled.
C33_Witness ==
    /\ lastOp = [op |-> "OnMouseMoved", arg |-> "false"]
    /\ Notifications(log) = << <<"OnMouseHoverStateChanged", FALSE>> >>
    /\ state_ = "kRevealed"
    /\ auto_hide_timer_

(* C34 *)

\* C34: a SetEnabled(true) that takes the controller out of kDisabled leaves
\* kHasSeenIntroduction true; no operation changes it from true to false;
\* and a SetEnabled that is refused or finds nothing to change leaves the
\* preferences as they were.
C34_IntroductionRecorded ==
    [][/\ (state_ = "kDisabled" /\ state_' # "kDisabled")
            => prefs'.kHasSeenIntroduction
       /\ prefs.kHasSeenIntroduction => prefs'.kHasSeenIntroduction
       /\ (lastOp'.op = "SetEnabled"
           /\ (state_' = "kDisabled") = (state_ = "kDisabled"))
            => prefs' = prefs
      ]_vars

\* The first SetEnabled(true) of a profile has recorded the introduction.
C34_Witness ==
    /\ lastOp = [op |-> "SetEnabled", arg |-> "true"]
    /\ Notified(log, "OnImmersiveModeToggled") = <<TRUE>>
    /\ prefs.kHasSeenIntroduction
    /\ views = [e \in ManagedElements |-> "unset"]

(* C35 *)

\* C35: in every reachable state with Mode = kRevealed and neither the
\* pointer signal nor the focus signal held, the auto-hide timer is pending.
C35_RevealedUnheldHasTimer ==
    (state_ = "kRevealed" /\ ~should_show_ui_ /\ ~address_bar_focused_)
        => auto_hide_timer_

(* C36 *)

\* C36: in every reachable state AnimationPhase is kShowingUI or kHidingUI
\* only while the animation is running (so that its completion brings the
\* phase back to kNone without a further input event).
C36_PhaseOnlyWhileRunning ==
    animation_state_ # "kNone" => animation_.running

(* C37 *)

\* The observers have been told that immersive mode is on, and not since
\* that it is off, when entry i of the log l is emitted.
SessionOpenAt(l, i) ==
    LET toggled == Notified(SubSeq(l, 1, i - 1), "OnImmersiveModeToggled")
    IN  IF Len(toggled) = 0 THEN lastToggled = "true"
        ELSE toggled[Len(toggled)]

\* C37: every OnImmersiveUIVisibilityChanged is emitted after the
\* OnImmersiveModeToggled(true) of its session and before its
\* OnImmersiveModeToggled(false): when it is emitted the last
\* OnImmersiveModeToggled the observers received was (true).
C37_VisibilityInsideSession ==
    [][\A i \in 1..Len(log') :
          log'[i].kind = "OnImmersiveUIVisibilityChanged" => SessionOpenAt(log', i)
      ]_vars

(* The legacy preference changing while the controller runs *)

\* PrefService::SetBoolean("show_fullscreen_toolbar", value): the profile's
\* legacy always-show-toolbar preference is written.  The controller
\* registers no preference observer, so none of its members changes.
SetBoolean(s, value) == [s EXCEPT !.prefs.kShowFullscreenToolbar = value]

CallSetBoolean == \E value \in BOOLEAN :
    Commit("SetBoolean", Str(value), SetBoolean(Self, value))

LegacyNext ==
    \/ Next
    \/ CallSetBoolean

LegacySpec == Init /\ [][LegacyNext]_vars

(* C38 *)

\* C38: whenever prefs::kRespectLegacyFullscreenPref and the legacy
\* always-show-toolbar preference are both true, Mode = kDisabled, also
\* when the preference becomes true while the controller is enabled.
C38_LegacyKeepsDisabled ==
    (prefs.kRespectLegacyFullscreenPref /\ prefs.kShowFullscreenToolbar)
        => state_ = "kDisabled"

----------------------------------------------------------------------------
(* ImmersiveFullscreenEventHandler, the page's JavaScript event handler *)

\* Pointer heights (event.clientY) around the top edge.
ClientYs == {0, 5, 6}

\* keydown events: a plain key, Tab, and a key with Ctrl held.
KeyboardEvents ==
    {[key |-> "a", ctrlKey |-> FALSE, metaKey |-> FALSE, altKey |-> FALSE],
     [key |-> "Tab", ctrlKey |-> FALSE, metaKey |-> FALSE, altKey |-> FALSE],
     [key |-> "a", ctrlKey |-> TRUE, metaKey |-> FALSE, altKey |-> FALSE]}

\* Configuration objects passed to updateConfig; an absent field is
\* undefined.
Configs ==
    {[topEdgeSensitivity |-> 4], [topEdgeSensitivity |-> 5],
     [autoHideDelay |-> 500], [topEdgeSensitivity |-> 5, autoHideDelay |-> 2000]}

dispatchEvent(h, event) == [h EXCEPT !.dispatched = Append(@, event)]

dispatchUIVisibilityEvent(h, visible, reason) ==
    dispatchEvent(h, [type |-> "immersive-ui-visibility-changed",
                      detail |-> [visible |-> visible, reason |-> reason]])

dispatchModeToggleEvent(h, enabled) ==
    dispatchEvent(h, [type |-> "immersive-mode-toggled",
                      detail |-> [enabled |-> enabled]])

isMouseInTopEdge(h, mouseY) == mouseY <= h.topEdgeSensitivity

isAddressBarFocused(d) == d.addressBarIsActiveElement

cancelAutoHide(h) ==
    IF h.autoHideTimer # "null"
    THEN [h EXCEPT !.autoHideTimer = "null"]
    ELSE h

scheduleAutoHide(h) == [cancelAutoHide(h) EXCEPT !.autoHideTimer = "pending"]

revealUI(h, reason) ==
    IF ~h.isEnabled \/ h.isUIVisible THEN h
    ELSE dispatchUIVisibilityEvent(
             cancelAutoHide([h EXCEPT !.isUIVisible = TRUE]), TRUE, reason)

hideUI(h, d, reason) ==
    IF ~h.isEnabled \/ ~h.isUIVisible THEN h
    ELSE IF isAddressBarFocused(d) THEN h
    ELSE dispatchUIVisibilityEvent([h EXCEPT !.isUIVisible = FALSE], FALSE, reason)

enableImmersiveMode(h, d) ==
    IF h.isEnabled THEN h
    ELSE LET hidden == [h EXCEPT !.isEnabled = TRUE, !.isUIVisible = FALSE]
             shown ==
                 IF isAddressBarFocused(d)
                    \/ isMouseInTopEdge(hidden, hidden.lastMousePosition.y)
                 THEN revealUI(hidden, "initial_state")
                 ELSE hidden
         IN  dispatchModeToggleEvent(shown, TRUE)

disableImmersiveMode(h) ==
    IF ~h.isEnabled THEN h
    ELSE dispatchModeToggleEvent(
             cancelAutoHide([h EXCEPT !.isEnabled = FALSE, !.isUIVisible = TRUE]),
             FALSE)

updateTopEdgeBounds(h) == h

handleMouseMove(h, d, event) ==
    IF ~h.isEnabled THEN h
    ELSE LET moved == [h EXCEPT !.lastMousePosition =
                                    [x |-> event.clientX, y |-> event.clientY]]
             isInTopEdge == isMouseInTopEdge(moved, event.clientY)
         IN  IF isInTopEdge /\ ~moved.isUIVisible
             THEN revealUI(moved, "mouse_hover")
             ELSE IF ~isInTopEdge /\ moved.isUIVisible /\ ~isAddressBarFocused(d)
                  THEN scheduleAutoHide(moved)
                  ELSE moved

handleKeyDown(h, event) ==
    IF ~h.isEnabled THEN h
    ELSE LET shouldReveal ==
                 \/ event.ctrlKey
                 \/ event.metaKey
                 \/ event.altKey
                 \/ event.key = "F11"
                 \/ event.key = "Escape"
                 \/ event.key = "Tab"
         IN  IF shouldReveal THEN revealUI(h, "keyboard_shortcut") ELSE h

handleAddressBarFocus(h) ==
    IF ~h.isEnabled THEN h
    ELSE cancelAutoHide(revealUI(h, "address_bar_focus"))

handleAddressBarBlur(h) ==
    IF ~h.isEnabled THEN h
    ELSE IF ~isMouseInTopEdge(h, h.lastMousePosition.y)
         THEN scheduleAutoHide(h)
         ELSE h

handleFullscreenChange(h, d, isFullscreen) ==
    IF isFullscreen THEN enableImmersiveMode(h, d) ELSE disableImmersiveMode(h)

handleWindowResize(h) ==
    IF ~h.isEnabled THEN h
    ELSE scheduleAutoHide(revealUI(updateTopEdgeBounds(h), "window_resize"))

updateConfig(h, config) ==
    LET sensitivity ==
            IF "topEdgeSensitivity" \in DOMAIN config
            THEN [h EXCEPT !.topEdgeSensitivity = config.topEdgeSensitivity]
            ELSE h
    IN  IF "autoHideDelay" \in DOMAIN config
        THEN [sensitivity EXCEPT !.autoHideDelay = config.autoHideDelay]
        ELSE sensitivity

destroy(h) ==
    disableImmersiveMode(cancelAutoHide([h EXCEPT !.listening = FALSE]))

\* The setTimeout callback scheduleAutoHide registered runs.
autoHideTimeout(h, d) ==
    hideUI([h EXCEPT !.autoHideTimer = "expired"], d, "auto_hide_timer")

\* The event `op` (with argument `arg`) leaves the handler as `h` and the
\* page as `d`; the controller is not involved.
HandlerCommit(op, arg, h, d) ==
    /\ handler' = [h EXCEPT !.dispatched = <<>>]
    /\ document' = d
    /\ log' = h.dispatched
    /\ lastOp' = [op |-> op, arg |-> arg]
    /\ UNCHANGED <<state_, animation_state_, should_show_ui_, address_bar_focused_,
                   mouse_in_top_edge_, auto_hide_timer_, animation_,
                   animation_duration_, auto_hide_delay_, top_edge_sensitivity_px_,
                   show_on_address_bar_focus_, show_on_keyboard_activity_, views,
                   observers_, prefs, lastToggled, lastVisibility>>

\* A controller over the fixture's preferences beside a newly constructed
\* handler.
HandlerInit ==
    /\ TopEdgeInit
    /\ top_edge_sensitivity_px_ = kDefaultTopEdgeSensitivity

EventMouseMove ==
    /\ handler.listening
    /\ \E y \in ClientYs :
           HandlerCommit("mousemove", y,
                         handleMouseMove(handler, document,
                                         [clientX |-> 0, clientY |-> y]),
                         [document EXCEPT !.clientY = y])

EventKeyDown ==
    /\ handler.listening
    /\ \E event \in KeyboardEvents :
           HandlerCommit("keydown", event, handleKeyDown(handler, event), document)

EventAddressBarFocus ==
    /\ handler.listening
    /\ ~document.addressBarIsActiveElement
    /\ HandlerCommit("focus", "none", handleAddressBarFocus(handler),
                     [document EXCEPT !.addressBarIsActiveElement = TRUE])

EventAddressBarBlur ==
    /\ handler.listening
    /\ document.addressBarIsActiveElement
    /\ HandlerCommit("blur", "none", handleAddressBarBlur(handler),
                     [document EXCEPT !.addressBarIsActiveElement = FALSE])

EventFullscreenChange ==
    /\ handler.listening
    /\ \E isFullscreen \in BOOLEAN :
           HandlerCommit("fullscreenchange", Str(isFullscreen),
                         handleFullscreenChange(handler, document, isFullscreen),
                         document)

EventResize ==
    /\ handler.listening
    /\ HandlerCommit("resize", "none", handleWindowResize(handler), document)

CallUpdateConfig ==
    /\ handler.listening
    /\ \E config \in Configs :
           HandlerCommit("updateConfig", config, updateConfig(handler, config),
                         document)

EventBeforeUnload ==
    /\ handler.listening
    /\ HandlerCommit("beforeunload", "none", destroy(handler), document)

AutoHideTimeout ==
    /\ handler.autoHideTimer = "pending"
    /\ HandlerCommit("autoHideTimer", "none", autoHideTimeout(handler, document),
                     document)

HandlerNext ==
    \/ EventMouseMove
    \/ EventKeyDown
    \/ EventAddressBarFocus
    \/ EventAddressBarBlur
    \/ EventFullscreenChange
    \/ EventResize
    \/ CallUpdateConfig
    \/ EventBeforeUnload
    \/ AutoHideTimeout

HandlerSpec == HandlerInit /\ [][HandlerNext]_vars

(* C39 *)

\* C39: while immersive mode is enabled the auto-hide timer never hides the
\* UI while the pointer is inside the top edge: when the timer's callback
\* turns isUIVisible from true to false, the pointer is below the top edge.
C39_TimerSparesHoveredUI ==
    [][(/\ lastOp'.op = "autoHideTimer"
        /\ handler.isEnabled
        /\ handler.isUIVisible
        /\ ~handler'.isUIVisible)
           => document.clientY > handler.topEdgeSensitivity
      ]_vars

====
